---- MODULE Spec2Model ----
(***************************************************************************)
(* Model of library/sensors/sensors_custom.py: the custom sensor classes   *)
(* (CustomDataSource subclasses) of turing-smart-screen-python, their      *)
(* class-level state (value, last_val, _prev_bytes, _prev_time, _cached,   *)
(* max_freq, _max_freq_loaded), the LibreHardwareMonitor lazy-load gate    *)
(* and the Linux helper functions.                                         *)
(*                                                                         *)
(* Representation.                                                         *)
(*   float        <<n, d>>, the rational n/d in lowest terms with d > 0;   *)
(*                math.nan is <<0, 0>>.                                    *)
(*   T | None     a sequence of length <= 1: <<>> is None, <<x>> is x.     *)
(*   str          a sequence of tokens (words and symbols) for names that  *)
(*                are searched, a sequence of characters for as_string().  *)
(*   dict         a function; "k in d" is k \in DOMAIN d.                  *)
(***************************************************************************)
EXTENDS Integers, Sequences, FiniteSets, TLC

\* ------------------------------------------------------------------------
\* floats
\* ------------------------------------------------------------------------
NaN == <<0, 0>>

IsNaN(x) == x[2] = 0

Abs(n) == IF n < 0 THEN -n ELSE n

RECURSIVE Gcd(_, _)
Gcd(a, b) == IF b = 0 THEN a ELSE Gcd(b, a % b)

\* n / d as a float (d # 0)
Rat(n, d) ==
    LET g == Gcd(Abs(n), Abs(d))
        s == IF d < 0 THEN -1 ELSE 1
    IN  <<(s * n) \div g, (s * d) \div g>>

Flt(n) == <<n, 1>>

\* x / k for an integer k # 0, x not NaN
DivInt(x, k) ==
    LET g == Gcd(Abs(x[1]), Abs(k))
        s == IF k < 0 THEN -1 ELSE 1
    IN  <<(s * x[1]) \div g, x[2] * (Abs(k) \div g)>>

\* comparisons with an integer; every comparison with NaN is False
Gt(x, k) == ~IsNaN(x) /\ x[1] > k * x[2]
Ge(x, k) == ~IsNaN(x) /\ x[1] >= k * x[2]

RECURSIVE SumInts(_)
SumInts(s) == IF s = <<>> THEN 0 ELSE Head(s) + SumInts(Tail(s))

\* statistics.mean of a non-empty list of integer-valued readings
mean(s) == Rat(SumInts(s), Len(s))

\* ------------------------------------------------------------------------
\* str.format: f'{x:>W.Pf}' as a sequence of characters
\* ------------------------------------------------------------------------
Digit(k) == <<"0", "1", "2", "3", "4", "5", "6", "7", "8", "9">>[k + 1]

RECURSIVE Digits(_)
Digits(n) == IF n < 10 THEN <<Digit(n)>> ELSE Digits(n \div 10) \o <<Digit(n % 10)>>

RECURSIVE Pow10(_)
Pow10(p) == IF p = 0 THEN 1 ELSE 10 * Pow10(p - 1)

RECURSIVE Spaces(_)
Spaces(k) == IF k <= 0 THEN <<>> ELSE <<" ">> \o Spaces(k - 1)

\* right-align in a field of the given minimum width
PadLeft(s, width) == Spaces(width - Len(s)) \o s

\* the fraction digits, zero-filled to prec places
FracDigits(f, prec) ==
    LET ds == Digits(f)
    IN  [i \in 1..(prec - Len(ds)) |-> "0"] \o ds

\* fixed-point presentation type 'f': round half to even at prec places,
\* a sign for negative values only, 'nan' for NaN
FormatF(x, width, prec) ==
    IF IsNaN(x) THEN PadLeft(<<"n", "a", "n">>, width)
    ELSE LET a == Abs(x[1])
             d == x[2]
             ip == a \div d
             f == (a % d) * Pow10(prec)
             q == f \div d
             r == f % d
             odd == IF prec = 0 THEN ip % 2 = 1 ELSE q % 2 = 1
             up == (2 * r > d) \/ (2 * r = d /\ odd)
             carry == up /\ (q + 1 = Pow10(prec))
             fq == IF ~up THEN q ELSE IF carry THEN 0 ELSE q + 1
             iq == IF carry THEN ip + 1 ELSE ip
             sign == IF x[1] < 0 THEN <<"-">> ELSE <<>>
             frac == IF prec > 0 THEN <<".">> \o FracDigits(fq, prec) ELSE <<>>
         IN  PadLeft(sign \o Digits(iq) \o frac, width)

Chars_pct == <<"%">>
\* "deg" stands for the one character U+00B0
Chars_degC == <<"deg", "C">>
Chars_GHz == <<" ", "G", "H", "z">>
Chars_MHz == <<" ", "M", "H", "z">>
Chars_MBs == <<" ", "M", "B", "/", "s">>
Chars_GBs == <<" ", "G", "B", "/", "s">>
Chars_RPM == <<" ", "R", "P", "M">>
Chars_NA == <<"N", "/", "A">>

\* ------------------------------------------------------------------------
\* Optional values, names, dicts
\* ------------------------------------------------------------------------
None == <<>>

Some(x) == <<x>>

IsNone(o) == o = <<>>

Val(o) == o[1]

Front(s) == SubSeq(s, 1, Len(s) - 1)

\* the elements of s at the indices in I, in order
RECURSIVE Where(_, _)
Where(s, I) ==
    IF s = <<>> THEN <<>>
    ELSE IF Len(s) \in I THEN Where(Front(s), I) \o <<s[Len(s)]>>
         ELSE Where(Front(s), I)

Min(S) == CHOOSE x \in S : \A y \in S : x <= y

\* str.startswith and "sub in name", on token sequences
StartsWith(name, prefix) ==
    /\ Len(prefix) <= Len(name)
    /\ SubSeq(name, 1, Len(prefix)) = prefix

Contains(name, sub) ==
    \E i \in 1..(Len(name) - Len(sub) + 1) : SubSeq(name, i, i + Len(sub) - 1) = sub

\* d[k] = v on a dict
DictSet(d, k, v) == [x \in (DOMAIN d) \cup {k} |-> IF x = k THEN v ELSE d[x]]

EmptyDict == <<>>

NumLess(a, b) == a[1] * b[2] < b[1] * a[2]

\* max() of a non-empty list of floats
RECURSIVE MaxNum(_)
MaxNum(s) ==
    IF Len(s) = 1 THEN s[1]
    ELSE LET r == MaxNum(Tail(s)) IN IF NumLess(s[1], r) THEN r ELSE s[1]

\* ------------------------------------------------------------------------
\* LibreHardwareMonitor lazy load (Windows only)
\* ------------------------------------------------------------------------
\* a loader without the _lhm_initialized gate: the import is attempted on
\* every call
init_lhm_every_call(lhm, is_windows, imp) ==
    IF ~is_windows
    THEN [lhm |-> [lhm EXCEPT !.initialized = TRUE], raised |-> FALSE]
    ELSE IF imp = "ok"
         THEN [lhm |-> [initialized |-> TRUE, handle |-> Some("handle"),
                        Hardware |-> Some("Hardware")],
               raised |-> FALSE]
         ELSE [lhm |-> [lhm EXCEPT !.initialized = TRUE],
               raised |-> imp # "ImportError"]

\* _init_lhm(): the module globals after the call, and whether it raised.
\* lhm is [initialized, handle, Hardware]; imp is what the import of
\* library.sensors.sensors_librehardwaremonitor does when it is attempted:
\* "ok", "ImportError", or "Exception" (any other exception of the import).
init_lhm(lhm, is_windows, imp) ==
    IF lhm.initialized THEN [lhm |-> lhm, raised |-> FALSE]
    ELSE IF ~is_windows
         THEN [lhm |-> [lhm EXCEPT !.initialized = TRUE], raised |-> FALSE]
         ELSE IF imp = "ok"
              THEN [lhm |-> [initialized |-> TRUE, handle |-> Some("handle"),
                             Hardware |-> Some("Hardware")],
                    raised |-> FALSE]
              ELSE [lhm |-> [lhm EXCEPT !.initialized = TRUE],
                    raised |-> imp # "ImportError"]

\* _get_cpus_lhm() after _init_lhm(): the Cpu hardware objects of the tree
get_cpus_lhm(handle, tree) ==
    IF IsNone(handle) THEN <<>>
    ELSE Where(tree, {i \in 1..Len(tree) : tree[i].HardwareType = "Cpu"})

\* index is 0-based
get_cpu_by_index_lhm(handle, tree, index) ==
    LET cpus == get_cpus_lhm(handle, tree)
    IN  IF index < Len(cpus) THEN Some(cpus[index + 1]) ELSE None

\* hw is a hardware object or None; a filter of <<>> is "not given"
find_sensor_lhm(hw, sensor_type, name_contains, name_startswith) ==
    IF IsNone(hw) THEN None
    ELSE LET ss == Val(hw).Sensors
             ok(i) == /\ ss[i].SensorType = sensor_type
                      /\ ~IsNone(ss[i].Value)
                      /\ (name_contains = <<>> \/ Contains(ss[i].Name, name_contains))
                      /\ (name_startswith = <<>> \/ StartsWith(ss[i].Name, name_startswith))
             hits == {i \in 1..Len(ss) : ok(i)}
         IN  IF hits = {} THEN None ELSE Some(ss[Min(hits)])

\* ------------------------------------------------------------------------
\* Linux helpers
\* ------------------------------------------------------------------------
\* the package of each logical CPU from
\* /sys/devices/system/cpu/cpu{i}/topology/physical_package_id; a read is
\* [kind, pkg] with kind "ok", "FileNotFoundError", "ValueError" or "OSError"
\* (any other error of open(), PermissionError included)
pkg_map_raises(topo) == \E i \in 1..Len(topo) : topo[i].kind = "OSError"

pkg_map_of(topo) == [i \in 1..Len(topo) |-> IF topo[i].kind = "ok" THEN topo[i].pkg ELSE 0]

\* a grouping that puts every reading in every package
grouped_of_all(readings, pkg_map, pkg) == readings

\* grouped[pkg_id] as the list of the readings of that package
grouped_of(readings, pkg_map, pkg) ==
    Where(readings, {i \in 1..Len(readings) : pkg_map[i] = pkg})

\* q is [raises, per_cpu, topo]: psutil.cpu_percent(percpu=True) and the
\* topology reads
linux_get_per_cpu_usage(q) ==
    IF q.raises \/ q.per_cpu = <<>> \/ pkg_map_raises(q.topo) THEN EmptyDict
    ELSE LET pkg_map == pkg_map_of(q.topo)
         IN  [p \in {pkg_map[i] : i \in 1..Len(q.per_cpu)} |->
                 mean(grouped_of(q.per_cpu, pkg_map, p))]

\* q is [raises, per_cpu, topo, sysfs]; per_cpu[i] is [current, max] in MHz
linux_get_per_cpu_frequencies(q) ==
    IF q.raises \/ q.per_cpu = <<>> \/ pkg_map_raises(q.topo) THEN EmptyDict
    ELSE LET pkg_map == pkg_map_of(q.topo)
             cur == [i \in 1..Len(q.per_cpu) |-> q.per_cpu[i].current]
         IN  [p \in {pkg_map[i] : i \in 1..Len(q.per_cpu)} |->
                 mean(grouped_of(cur, pkg_map, p))]

\* the max frequency of one logical CPU: freq.max, else cpuinfo_max_freq,
\* else scaling_max_freq (KHz, each read a value or None for a failed read)
cpu_max_mhz(freq, sysfs) ==
    IF freq.max > 0 THEN Flt(freq.max)
    ELSE IF ~IsNone(sysfs.cpuinfo_max_freq) THEN Rat(Val(sysfs.cpuinfo_max_freq), 1000)
    ELSE IF ~IsNone(sysfs.scaling_max_freq) THEN Rat(Val(sysfs.scaling_max_freq), 1000)
    ELSE Flt(0)

linux_get_per_cpu_max_frequencies(q) ==
    IF q.raises \/ q.per_cpu = <<>> \/ pkg_map_raises(q.topo) THEN EmptyDict
    ELSE LET pkg_map == pkg_map_of(q.topo)
             mx == [i \in 1..Len(q.per_cpu) |-> cpu_max_mhz(q.per_cpu[i], q.sysfs[i])]
             kept == {i \in 1..Len(q.per_cpu) : Gt(mx[i], 0)}
         IN  [p \in {pkg_map[i] : i \in kept} |->
                 MaxNum(Where(mx, {i \in kept : pkg_map[i] = p}))]

\* str.lower() of a token
LowerTok(t) ==
    CASE t = "Package" -> "package"
      [] t = "Core" -> "core"
      [] t = "Tctl" -> "tctl"
      [] OTHER -> t

\* int(token): the value, or None for a ValueError
ParseInt(t) ==
    CASE t = "0" -> Some(0)
      [] t = "1" -> Some(1)
      [] t = "2" -> Some(2)
      [] OTHER -> None

\* the first loop over sensor_temps['coretemp']: "Package id N" entries
RECURSIVE coretemp_packages(_, _)
coretemp_packages(entries, temps) ==
    IF entries = <<>> THEN temps
    ELSE LET e == Head(entries)
             is_pkg == \E i \in 1..Len(e.label) : LowerTok(e.label[i]) = "package"
             pkg_id == ParseInt(e.label[Len(e.label)])
         IN  IF is_pkg /\ ~IsNone(pkg_id)
             THEN coretemp_packages(Tail(entries), DictSet(temps, Val(pkg_id), Flt(e.current)))
             ELSE coretemp_packages(Tail(entries), temps)

\* the second loop: temps.setdefault(0, current) for each "Core..." entry
coretemp_first_core(entries) ==
    LET cores == {i \in 1..Len(entries) : StartsWith(entries[i].label, <<"Core">>)}
    IN  IF cores = {} THEN EmptyDict
        ELSE DictSet(EmptyDict, 0, Flt(entries[Min(cores)].current))

\* temps[i] = entry.current for i, entry in enumerate(entries)
enumerate_temps(entries) == [i \in 0..(Len(entries) - 1) |-> Flt(entries[i + 1].current)]

\* a variant that consults zenpower before k10temp
linux_get_cpu_temperatures_zenpower_first(q) ==
    IF q.raises THEN EmptyDict
    ELSE LET t == q.table
             t1 == IF "coretemp" \in DOMAIN t
                   THEN LET pk == coretemp_packages(t["coretemp"], EmptyDict)
                        IN  IF pk = EmptyDict THEN coretemp_first_core(t["coretemp"]) ELSE pk
                   ELSE EmptyDict
             t2 == IF "zenpower" \in DOMAIN t /\ t1 = EmptyDict
                   THEN enumerate_temps(t["zenpower"]) ELSE t1
             t3 == IF "k10temp" \in DOMAIN t /\ t2 = EmptyDict
                   THEN enumerate_temps(t["k10temp"]) ELSE t2
         IN  t3

\* q is [raises, table]: psutil.sensors_temperatures(), a dict from chip
\* name to a list of [label, current]; a chip is listed with its readings,
\* at least one
linux_get_cpu_temperatures(q) ==
    IF q.raises THEN EmptyDict
    ELSE LET t == q.table
             t1 == IF "coretemp" \in DOMAIN t
                   THEN LET pk == coretemp_packages(t["coretemp"], EmptyDict)
                        IN  IF pk = EmptyDict THEN coretemp_first_core(t["coretemp"]) ELSE pk
                   ELSE EmptyDict
             t2 == IF "k10temp" \in DOMAIN t /\ t1 = EmptyDict
                   THEN enumerate_temps(t["k10temp"]) ELSE t1
             t3 == IF "zenpower" \in DOMAIN t /\ t2 = EmptyDict
                   THEN enumerate_temps(t["zenpower"]) ELSE t2
         IN  t3

\* {fan.label: fan.current for fan in fans['nct6779']}
RECURSIVE fan_dict(_, _)
fan_dict(entries, d) ==
    IF entries = <<>> THEN d
    ELSE fan_dict(Tail(entries), DictSet(d, Head(entries).label, Head(entries).current))

\* q is [raises, table]: psutil.sensors_fans()
linux_get_fan_speeds(q) ==
    IF q.raises THEN EmptyDict
    ELSE IF "nct6779" \in DOMAIN q.table THEN fan_dict(q.table["nct6779"], EmptyDict)
    ELSE EmptyDict

\* One dmidecode run, p = [exc, lines]: exc is any failure of check_output
\* (no such program, non-zero exit, timeout).  A line is [key, val]: the text
\* before the colon and the first word after it, val = <<>> when nothing
\* follows the colon; a word is [isdigit, n].  The result is [found, speed]:
\* found is False when the method falls through to the next one.
IsSpeedLine(l) == l.key \in {"Configured Memory Speed", "Configured Clock Speed"}

dmidecode_speed(p) ==
    IF p.exc THEN [found |-> FALSE, speed |-> 0]
    ELSE LET cfg == {i \in 1..Len(p.lines) : IsSpeedLine(p.lines[i])}
             \* split()[0] of an empty value raises IndexError
             bad == \E i \in cfg : IsNone(p.lines[i].val)
             speeds == {Val(p.lines[i].val).n : i \in
                          {j \in cfg : /\ ~IsNone(p.lines[j].val)
                                       /\ Val(p.lines[j].val).isdigit
                                       /\ Val(p.lines[j].val).n > 0}}
         IN  IF bad \/ speeds = {} THEN [found |-> FALSE, speed |-> 0]
             ELSE [found |-> TRUE, speed |-> CHOOSE x \in speeds : \A y \in speeds : y <= x]

\* One decode-dimms run, p = [exc, lines]; a line is [key, parts], parts the
\* words of the line
RECURSIVE first_speed_part(_)
first_speed_part(parts) ==
    IF parts = <<>> THEN None
    ELSE IF Head(parts).isdigit /\ Head(parts).n > 100 THEN Some(Head(parts).n)
    ELSE first_speed_part(Tail(parts))

RECURSIVE decode_dimms_lines(_)
decode_dimms_lines(lines) ==
    IF lines = <<>> THEN None
    ELSE LET hit == IF Head(lines).key = "Maximum module speed"
                    THEN first_speed_part(Head(lines).parts) ELSE None
         IN  IF ~IsNone(hit) THEN hit ELSE decode_dimms_lines(Tail(lines))

decode_dimms_speed(p) ==
    IF p.exc THEN [found |-> FALSE, speed |-> 0]
    ELSE LET r == decode_dimms_lines(p.lines)
         IN  IF IsNone(r) THEN [found |-> FALSE, speed |-> 0]
             ELSE [found |-> TRUE, speed |-> Val(r)]

\* a chain that asks decode-dimms first and dmidecode last
linux_get_memory_clock_reversed(q) ==
    LET m1 == dmidecode_speed(q.dmidecode)
        m2 == dmidecode_speed(q.sudo_dmidecode)
        m3 == decode_dimms_speed(q.decode_dimms)
    IN  IF m3.found THEN [speed |-> m3.speed, ran |-> 1]
        ELSE IF m2.found THEN [speed |-> m2.speed, ran |-> 2]
        ELSE IF m1.found THEN [speed |-> m1.speed, ran |-> 3]
        ELSE [speed |-> 0, ran |-> 3]

\* q is [dmidecode, sudo_dmidecode, decode_dimms]: what each program would do
\* if run.  The result is [speed, ran]: ran is the number of programs run.
linux_get_memory_clock(q) ==
    LET m1 == dmidecode_speed(q.dmidecode)
        m2 == dmidecode_speed(q.sudo_dmidecode)
        m3 == decode_dimms_speed(q.decode_dimms)
    IN  IF m1.found THEN [speed |-> m1.speed, ran |-> 1]
        ELSE IF m2.found THEN [speed |-> m2.speed, ran |-> 2]
        ELSE IF m3.found THEN [speed |-> m3.speed, ran |-> 3]
        ELSE [speed |-> 0, ran |-> 3]

\* ------------------------------------------------------------------------
\* State
\* ------------------------------------------------------------------------
\* last_val = [math.nan] * 10
HistLen == 10

\* 1024 * 1024, the divisor of the disk rates
MiB == 1048576

PercentageClasses == {"Cpu0Percentage", "Cpu1Percentage"}
TemperatureClasses == {"Cpu0Temperature", "Cpu1Temperature"}
FrequencyClasses == {"Cpu0Frequency", "Cpu1Frequency"}
DiskClasses == {"DiskReadSpeed", "DiskWriteSpeed"}
FanClasses == {"Cpu0FanSpeed", "Cpu1FanSpeed"}
CpuClasses == PercentageClasses \cup TemperatureClasses \cup FrequencyClasses

\* the classes with a class attribute "value"
ValueClasses ==
    CpuClasses \cup DiskClasses \cup FanClasses \cup {"MemoryClockSpeed", "NvmeTemperature"}

\* the classes with a class attribute "last_val"
HistClasses == (ValueClasses \ {"MemoryClockSpeed"}) \cup {"ExampleCustomNumericData"}

Classes == HistClasses \cup {"MemoryClockSpeed", "ExampleCustomTextOnlyData"}

VARIABLES
    sys_platform,     \* platform.system(): fixes _is_windows and _is_linux
    theme,            \* the classes the running theme displays, hence polls
    lhm_initialized,  \* _lhm_initialized
    lhm_handle,       \* _lhm_handle, None or the handle
    lhm_Hardware,     \* _lhm_Hardware, None or the Hardware module
    value,            \* C.value of each class with that attribute
    example_value,    \* self.value of the ExampleCustomNumericData instance, None until set
    last_val,         \* C.last_val of each class with that attribute
    max_freq,         \* C.max_freq of the frequency classes
    max_freq_loaded,  \* C._max_freq_loaded of the frequency classes
    cached,           \* MemoryClockSpeed._cached
    prev_bytes,       \* C._prev_bytes of the disk classes
    prev_time,        \* C._prev_time of the disk classes
    calls,            \* as_numeric() calls made so far
    ret,              \* the last call: class, method, how it ended, what it returned
    obs,              \* the last as_numeric() call: what it read, and the state before it
    polled,           \* the last as_numeric() call: class, how it ended, what it returned
    produced,         \* per class, the values of its last (up to HistLen) returning as_numeric() calls
    ncalls,           \* per class, its as_numeric() calls so far, counted up to HistLen + 1
    memo,             \* the first positive memory clock an as_numeric() call has read, None before
    applied           \* the last helper applied on its own: its name, its input, its result

vars ==
    <<sys_platform, theme, lhm_initialized, lhm_handle, lhm_Hardware, value, example_value,
      last_val, max_freq, max_freq_loaded, cached, prev_bytes, prev_time, calls, ret, obs,
      polled, produced, ncalls, memo, applied>>

lhm_vars == <<lhm_initialized, lhm_handle, lhm_Hardware>>
freq_vars == <<max_freq, max_freq_loaded>>
disk_vars == <<prev_bytes, prev_time>>
fixed_vars == <<sys_platform, theme, applied>>

is_windows == sys_platform = "Windows"
is_linux == sys_platform = "Linux"

lhm == [initialized |-> lhm_initialized, handle |-> lhm_handle, Hardware |-> lhm_Hardware]

NoCall == [cls |-> "", op |-> "", kind |-> "", num |-> NaN, str |-> <<>>]

NoObs ==
    [unavailable |-> FALSE, queried |-> FALSE, reading |-> None, counter |-> None, now |-> None,
     before |-> [value |-> NaN, last_val |-> <<>>, prev_bytes |-> None, prev_time |-> None,
                 cached |-> FALSE, memo |-> None]]

NoPoll == [cls |-> "", kind |-> "", num |-> NaN]

NoHelper == [fn |-> "", arg |-> <<>>, out |-> <<>>]

Platforms == {"Linux", "Windows", "Darwin"}

\* the themes explored: one custom sensor each
Themes == {t \in SUBSET Classes : Cardinality(t) = 1}

InitState ==
    /\ sys_platform \in Platforms
    /\ lhm_initialized = FALSE
    /\ lhm_handle = None
    /\ lhm_Hardware = None
    /\ value = [c \in ValueClasses |-> Flt(0)]
    /\ example_value = None
    /\ last_val = [c \in HistClasses |-> [i \in 1..HistLen |-> NaN]]
    /\ max_freq = [c \in FrequencyClasses |-> Flt(0)]
    /\ max_freq_loaded = [c \in FrequencyClasses |-> FALSE]
    /\ cached = FALSE
    /\ prev_bytes = [c \in DiskClasses |-> None]
    /\ prev_time = [c \in DiskClasses |-> None]
    /\ calls = 0
    /\ ret = NoCall
    /\ obs = NoObs
    /\ polled = NoPoll
    /\ memo = None
    /\ produced = [c \in HistClasses |-> <<>>]
    /\ ncalls = [c \in Classes |-> 0]
    /\ applied = NoHelper

Init == InitState /\ theme \in Themes

\* ------------------------------------------------------------------------
\* The effects shared by the as_numeric() methods
\* ------------------------------------------------------------------------
\* a variant that appends and never pops
Push_without_pop(h, v) == Append(h, v)

\* last_val.append(v); last_val.pop(0)
Push(h, v) == Tail(Append(h, v))

\* a variant with one history list shared by all the classes, as a "last_val"
\* inherited from the base class would be
StoreValue_shared_history(c, v) ==
    /\ value' = [value EXCEPT ![c] = v]
    /\ last_val' = [k \in DOMAIN last_val |-> Push(last_val[k], v)]

\* C.value = v, then the history update
StoreValue(c, v) ==
    /\ value' = [value EXCEPT ![c] = v]
    /\ last_val' = [last_val EXCEPT ![c] = Push(@, v)]

LastN(s, n) == IF Len(s) <= n THEN s ELSE SubSeq(s, Len(s) - n + 1, Len(s))

Before(c) ==
    [value |-> IF c \in ValueClasses THEN value[c] ELSE NaN,
     last_val |-> IF c \in HistClasses THEN last_val[c] ELSE <<>>,
     prev_bytes |-> IF c \in DiskClasses THEN prev_bytes[c] ELSE None,
     prev_time |-> IF c \in DiskClasses THEN prev_time[c] ELSE None,
     cached |-> cached,
     memo |-> memo]

\* What the call met: whether the reading it is about was unavailable,
\* whether it asked the platform at all, the reading it got (None when
\* none), and for the disk classes the byte counter and the time it read.
ObserveAll(c, unavailable, queried, reading, counter, now) ==
    obs' = [unavailable |-> unavailable, queried |-> queried, reading |-> reading,
            counter |-> counter, now |-> now, before |-> Before(c)]

Observe(c, unavailable, queried, reading) ==
    ObserveAll(c, unavailable, queried, reading, None, None)

Counted(c) ==
    /\ calls' = calls + 1
    /\ ncalls' = [ncalls EXCEPT ![c] = IF @ > HistLen THEN @ ELSE @ + 1]

\* as_numeric() of class c returns the float x
Returns(c, x) ==
    /\ ret' = [cls |-> c, op |-> "as_numeric", kind |-> "float", num |-> x, str |-> <<>>]
    /\ polled' = [cls |-> c, kind |-> "float", num |-> x]
    /\ produced' = [k \in HistClasses |->
                       IF k = c THEN LastN(Append(produced[k], x), HistLen) ELSE produced[k]]
    /\ Counted(c)

\* as_numeric() of class c raises an exception to its caller
Raises(c) ==
    /\ ret' = [cls |-> c, op |-> "as_numeric", kind |-> "raised", num |-> NaN, str |-> <<>>]
    /\ polled' = [cls |-> c, kind |-> "raised", num |-> NaN]
    /\ UNCHANGED produced
    /\ Counted(c)

\* ------------------------------------------------------------------------
\* Disk Read/Write Speed
\* ------------------------------------------------------------------------
\* counters.read_bytes or counters.write_bytes
counter_field(c, counters) ==
    IF c = "DiskReadSpeed" THEN counters.read_bytes ELSE counters.write_bytes

\* a rate in decimal megabytes (10^6 bytes) instead of MiB
disk_rate_decimal_mb(old, pb, pt, b, now) ==
    IF ~IsNone(pb) /\ ~IsNone(pt) /\ now - Val(pt) > 0
    THEN Rat(b - Val(pb), (now - Val(pt)) * 1000000)
    ELSE old

\* a rate clamped at 0 when the counter went backwards
disk_rate_clamped(old, pb, pt, b, now) ==
    IF ~IsNone(pb) /\ ~IsNone(pt) /\ now - Val(pt) > 0
    THEN IF b < Val(pb) THEN Flt(0) ELSE Rat(b - Val(pb), (now - Val(pt)) * MiB)
    ELSE old

\* the rate stored by as_numeric(): a new one when a previous sample exists
\* and dt > 0, else the one already stored
disk_rate(old, pb, pt, b, now) ==
    IF ~IsNone(pb) /\ ~IsNone(pt) /\ now - Val(pt) > 0
    THEN Rat(b - Val(pb), (now - Val(pt)) * MiB)
    ELSE old

\* DiskReadSpeed.as_numeric / DiskWriteSpeed.as_numeric.  E.counters is what
\* psutil.disk_io_counters() may return: None (no disk) or the counters;
\* E.times is what time.time() may return.  With counters = None the method
\* raises AttributeError at its first counters.<field>, before any store.
DiskSpeed_as_numeric(c, E) ==
    /\ c \in theme
    /\ calls < E.max_calls
    /\ \E counters \in E.counters, now \in E.times :
          IF IsNone(counters)
          THEN /\ Raises(c)
               /\ ObserveAll(c, TRUE, TRUE, None, None, Some(now))
               /\ UNCHANGED <<value, last_val, disk_vars>>
          ELSE LET b == counter_field(c, Val(counters))
                   v == disk_rate(value[c], prev_bytes[c], prev_time[c], b, now)
               IN  /\ StoreValue(c, v)
                   /\ prev_bytes' = [prev_bytes EXCEPT ![c] = Some(b)]
                   /\ prev_time' = [prev_time EXCEPT ![c] = Some(now)]
                   /\ Returns(c, v)
                   /\ ObserveAll(c, FALSE, TRUE, Some(Flt(b)), Some(b), Some(now))
    /\ UNCHANGED <<fixed_vars, lhm_vars, example_value, freq_vars, cached, memo>>

DiskReadSpeed_as_numeric(E) == DiskSpeed_as_numeric("DiskReadSpeed", E)

DiskWriteSpeed_as_numeric(E) == DiskSpeed_as_numeric("DiskWriteSpeed", E)

\* ------------------------------------------------------------------------
\* RAM Clock Speed
\* ------------------------------------------------------------------------
\* the Clock sensors with a value of the Memory hardware, in the order the
\* two nested loops visit them
RECURSIVE memory_clock_sensors(_)
memory_clock_sensors(hardware) ==
    IF hardware = <<>> THEN <<>>
    ELSE LET h == Head(hardware)
             own == IF h.HardwareType = "Memory"
                    THEN Where(h.Sensors, {i \in 1..Len(h.Sensors) :
                                             /\ h.Sensors[i].SensorType = "Clock"
                                             /\ ~IsNone(h.Sensors[i].Value)})
                    ELSE <<>>
         IN  own \o memory_clock_sensors(Tail(hardware))

\* a memory clock that is read afresh on every call
memory_clock_never_cached == FALSE

\* the early return of as_numeric(): the cached value, no query
memory_clock_is_cached == cached /\ Gt(value["MemoryClockSpeed"], 0)

MemoryClockSpeed_as_numeric(E) ==
    LET c == "MemoryClockSpeed"
        nan(queried, reading) ==
            /\ Returns(c, NaN)
            /\ Observe(c, TRUE, queried, reading)
            /\ UNCHANGED <<value, cached, memo>>
        store(v) ==
            /\ value' = [value EXCEPT ![c] = v]
            /\ cached' = TRUE
            /\ memo' = IF IsNone(memo) /\ Gt(v, 0) THEN Some(v) ELSE memo
            /\ Returns(c, v)
            /\ Observe(c, FALSE, TRUE, Some(v))
    IN  /\ c \in theme
        /\ calls < E.max_calls
        /\ IF memory_clock_is_cached
           THEN /\ Returns(c, value[c])
                /\ Observe(c, FALSE, FALSE, None)
                /\ UNCHANGED <<value, cached, memo, lhm_vars>>
           ELSE IF is_linux
           THEN /\ \E q \in E.mem :
                      LET speed == linux_get_memory_clock(q).speed
                      IN  /\ IF speed > 0 THEN store(Flt(speed)) ELSE nan(TRUE, Some(Flt(0)))
                          /\ applied' = [fn |-> "linux_get_memory_clock", arg |-> q,
                                         out |-> linux_get_memory_clock(q)]
                /\ UNCHANGED lhm_vars
           ELSE IF is_windows
           THEN \E imp \in E.imports, tree \in E.trees :
                   LET r == init_lhm(lhm, TRUE, imp)
                       clocks == memory_clock_sensors(tree.Hardware)
                   IN  /\ lhm_initialized' = r.lhm.initialized
                       /\ lhm_handle' = r.lhm.handle
                       /\ lhm_Hardware' = r.lhm.Hardware
                       /\ IF r.raised
                          THEN /\ Raises(c)
                               /\ Observe(c, TRUE, TRUE, None)
                               /\ UNCHANGED <<value, cached, memo>>
                          ELSE IF IsNone(r.lhm.handle) THEN nan(FALSE, None)
                          ELSE IF tree.raises \/ clocks = <<>> THEN nan(TRUE, None)
                          ELSE store(Flt(Val(clocks[1].Value)))
           ELSE /\ nan(FALSE, None)
                /\ UNCHANGED lhm_vars
        \* applied: the helper run by this call, with what the programs answered
        /\ (memory_clock_is_cached \/ ~is_linux) => applied' = NoHelper
        /\ UNCHANGED <<sys_platform, theme, example_value, last_val, freq_vars, disk_vars>>

\* ------------------------------------------------------------------------
\* Per-CPU classes: the two platform branches they share
\* ------------------------------------------------------------------------
\* a variant that stores the NaN it returns
ReturnsNaN_stored(c, queried) ==
    /\ StoreValue(c, NaN)
    /\ Returns(c, NaN)
    /\ Observe(c, TRUE, queried, None)

\* as_numeric() found no reading: return math.nan, nothing stored
ReturnsNaN(c, queried) ==
    /\ Returns(c, NaN)
    /\ Observe(c, TRUE, queried, None)
    /\ UNCHANGED <<value, last_val>>

\* a variant that stores and returns the reading and leaves the history
ReturnsReading_unrecorded(c, v) ==
    /\ value' = [value EXCEPT ![c] = v]
    /\ UNCHANGED last_val
    /\ Returns(c, v)
    /\ Observe(c, FALSE, TRUE, Some(v))

\* as_numeric() has the reading v: store it, append it, return it
ReturnsReading(c, v) ==
    /\ StoreValue(c, v)
    /\ Returns(c, v)
    /\ Observe(c, FALSE, TRUE, Some(v))

\* the Linux branch: d is the helper's dict, index the package
LinuxBranch(c, index, d) ==
    /\ IF index \in DOMAIN d THEN ReturnsReading(c, d[index]) ELSE ReturnsNaN(c, TRUE)
    /\ UNCHANGED lhm_vars

\* float(sensor.Value) of the sensor found, or None
sensor_reading(sensor) == IF IsNone(sensor) THEN None ELSE Some(Flt(Val(Val(sensor).Value)))

\* the sensor Cpu0Percentage / Cpu1Percentage read: Load, "CPU Total..."
load_reading(cpu) == sensor_reading(find_sensor_lhm(Some(cpu), "Load", <<>>, <<"CPU", "Total">>))

\* the name prefixes Cpu0Temperature / Cpu1Temperature try, in order
TemperaturePrefixes == <<<<"Core", "Average">>, <<"Core", "Max">>, <<"CPU", "Package">>, <<"Core">>>>

\* the loop over the name prefixes: the sensor of the first prefix that finds one
RECURSIVE first_prefix_sensor(_, _)
first_prefix_sensor(cpu, prefixes) ==
    IF prefixes = <<>> THEN None
    ELSE LET sensor == find_sensor_lhm(Some(cpu), "Temperature", <<>>, Head(prefixes))
         IN  IF ~IsNone(sensor) THEN sensor ELSE first_prefix_sensor(cpu, Tail(prefixes))

\* a resolver that takes the first live temperature sensor, in enumeration
\* order, whose name starts with any of the prefixes
temperature_reading_by_enumeration(cpu) ==
    LET ss == cpu.Sensors
        hits == {i \in 1..Len(ss) :
                   /\ ss[i].SensorType = "Temperature"
                   /\ ~IsNone(ss[i].Value)
                   /\ \E k \in 1..Len(TemperaturePrefixes) :
                         StartsWith(ss[i].Name, TemperaturePrefixes[k])}
    IN  IF hits = {} THEN None ELSE Some(Flt(Val(ss[Min(hits)].Value)))

temperature_reading(cpu) == sensor_reading(first_prefix_sensor(cpu, TemperaturePrefixes))

\* mean() of the Clock sensors "Core #..." that are not "Effective" and have
\* a value; None when there is none
frequency_reading(cpu) ==
    LET ss == cpu.Sensors
        hits == {i \in 1..Len(ss) :
                   /\ ss[i].SensorType = "Clock"
                   /\ Contains(ss[i].Name, <<"Core", "#">>)
                   /\ ~Contains(ss[i].Name, <<"Effective">>)
                   /\ ~IsNone(ss[i].Value)}
        frequencies == [i \in 1..Len(Where(ss, hits)) |-> Val(Where(ss, hits)[i].Value)]
    IN  IF hits = {} THEN None ELSE Some(mean(frequencies))

\* the reading class c takes from the sensors of its CPU on Windows
cpu_reading(c, cpu) ==
    IF c \in PercentageClasses THEN load_reading(cpu)
    ELSE IF c \in TemperatureClasses THEN temperature_reading(cpu)
    ELSE frequency_reading(cpu)

\* the Windows branch: _init_lhm(), _get_cpu_by_index_lhm(index), then
\* the reading taken from the CPU's sensors (None when absent).
\* An exception of the import other than ImportError, or of the hardware
\* enumeration, is not caught.
WindowsBranch(c, index, E) ==
    \E imp \in E.imports, tree \in E.trees :
       LET r == init_lhm(lhm, TRUE, imp)
           cpu == get_cpu_by_index_lhm(r.lhm.handle, tree.Hardware, index)
       IN  /\ lhm_initialized' = r.lhm.initialized
           /\ lhm_handle' = r.lhm.handle
           /\ lhm_Hardware' = r.lhm.Hardware
           /\ IF r.raised \/ (~IsNone(r.lhm.handle) /\ tree.raises)
              THEN /\ Raises(c)
                   /\ Observe(c, TRUE, TRUE, None)
                   /\ UNCHANGED <<value, last_val>>
              ELSE IF IsNone(r.lhm.handle) THEN ReturnsNaN(c, FALSE)
              ELSE IF IsNone(cpu) \/ IsNone(cpu_reading(c, Val(cpu))) THEN ReturnsNaN(c, TRUE)
              ELSE ReturnsReading(c, Val(cpu_reading(c, Val(cpu))))

\* neither Linux nor Windows
OtherBranch(c) ==
    /\ ReturnsNaN(c, FALSE)
    /\ UNCHANGED lhm_vars

\* ------------------------------------------------------------------------
\* Per-CPU Percentage (Load %)
\* ------------------------------------------------------------------------
CpuPercentage_as_numeric(c, index, E) ==
    /\ c \in theme
    /\ calls < E.max_calls
    /\ IF is_linux
       THEN \E q \in E.usage : LinuxBranch(c, index, linux_get_per_cpu_usage(q))
       ELSE IF is_windows THEN WindowsBranch(c, index, E)
       ELSE OtherBranch(c)
    /\ UNCHANGED <<fixed_vars, example_value, freq_vars, cached, disk_vars, memo>>

Cpu0Percentage_as_numeric(E) == CpuPercentage_as_numeric("Cpu0Percentage", 0, E)

Cpu1Percentage_as_numeric(E) == CpuPercentage_as_numeric("Cpu1Percentage", 1, E)

\* ------------------------------------------------------------------------
\* Per-CPU Temperature
\* ------------------------------------------------------------------------
CpuTemperature_as_numeric(c, index, E) ==
    /\ c \in theme
    /\ calls < E.max_calls
    /\ IF is_linux
       THEN \E q \in E.temps :
                /\ LinuxBranch(c, index, linux_get_cpu_temperatures(q))
                /\ applied' = [fn |-> "linux_get_cpu_temperatures", arg |-> q,
                               out |-> linux_get_cpu_temperatures(q)]
       ELSE /\ IF is_windows THEN WindowsBranch(c, index, E) ELSE OtherBranch(c)
            /\ applied' = NoHelper
    /\ UNCHANGED <<sys_platform, theme, example_value, freq_vars, cached, disk_vars, memo>>

Cpu0Temperature_as_numeric(E) == CpuTemperature_as_numeric("Cpu0Temperature", 0, E)

Cpu1Temperature_as_numeric(E) == CpuTemperature_as_numeric("Cpu1Temperature", 1, E)

\* ------------------------------------------------------------------------
\* Per-CPU Frequency (Clock Speed)
\* ------------------------------------------------------------------------
\* the first block of as_numeric(): one attempt to load max_freq
load_max_freq(c, index, E) ==
    IF max_freq_loaded[c] THEN UNCHANGED freq_vars
    ELSE /\ max_freq_loaded' = [max_freq_loaded EXCEPT ![c] = TRUE]
         /\ IF is_linux
            THEN \E q \in E.freq :
                    LET max_freqs == linux_get_per_cpu_max_frequencies(q)
                    IN  max_freq' = IF index \in DOMAIN max_freqs
                                    THEN [max_freq EXCEPT ![c] = max_freqs[index]]
                                    ELSE max_freq
            ELSE UNCHANGED max_freq

CpuFrequency_as_numeric(c, index, E) ==
    /\ c \in theme
    /\ calls < E.max_calls
    /\ load_max_freq(c, index, E)
    /\ IF is_linux
       THEN \E q \in E.freq : LinuxBranch(c, index, linux_get_per_cpu_frequencies(q))
       ELSE IF is_windows THEN WindowsBranch(c, index, E)
       ELSE OtherBranch(c)
    /\ UNCHANGED <<fixed_vars, example_value, cached, disk_vars, memo>>

Cpu0Frequency_as_numeric(E) == CpuFrequency_as_numeric("Cpu0Frequency", 0, E)

Cpu1Frequency_as_numeric(E) == CpuFrequency_as_numeric("Cpu1Frequency", 1, E)

\* ------------------------------------------------------------------------
\* CPU Fan Speeds
\* ------------------------------------------------------------------------
\* value is only assigned on Linux; it is appended and returned everywhere
CpuFanSpeed_as_numeric(c, label, E) ==
    /\ c \in theme
    /\ calls < E.max_calls
    /\ IF is_linux
       THEN \E q \in E.fans :
               LET fans == linux_get_fan_speeds(q)
                   v == IF label \in DOMAIN fans THEN Flt(fans[label]) ELSE Flt(0)
               IN  /\ StoreValue(c, v)
                   /\ Returns(c, v)
                   /\ Observe(c, label \notin DOMAIN fans, TRUE,
                              IF label \in DOMAIN fans THEN Some(v) ELSE None)
       ELSE /\ StoreValue(c, value[c])
            /\ Returns(c, value[c])
            /\ Observe(c, TRUE, FALSE, None)
    /\ UNCHANGED <<fixed_vars, lhm_vars, example_value, freq_vars, cached, disk_vars, memo>>

Cpu0FanSpeed_as_numeric(E) == CpuFanSpeed_as_numeric("Cpu0FanSpeed", "fan1", E)

Cpu1FanSpeed_as_numeric(E) == CpuFanSpeed_as_numeric("Cpu1FanSpeed", "fan2", E)

\* ------------------------------------------------------------------------
\* NVMe Temperature
\* ------------------------------------------------------------------------
\* t.current of the first 'Composite' entry of temps['nvme'], or None
nvme_composite(q) ==
    IF q.raises \/ "nvme" \notin DOMAIN q.table THEN None
    ELSE LET es == q.table["nvme"]
             hits == {i \in 1..Len(es) : es[i].label = <<"Composite">>}
         IN  IF hits = {} THEN None ELSE Some(Flt(es[Min(hits)].current))

NvmeTemperature_as_numeric(E) ==
    LET c == "NvmeTemperature"
    IN  /\ c \in theme
        /\ calls < E.max_calls
        /\ IF is_linux
           THEN \E q \in E.temps :
                   LET t == nvme_composite(q)
                       v == IF IsNone(t) THEN value[c] ELSE Val(t)
                   IN  /\ StoreValue(c, v)
                       /\ Returns(c, v)
                       /\ Observe(c, IsNone(t), TRUE, t)
           ELSE /\ StoreValue(c, value[c])
                /\ Returns(c, value[c])
                /\ Observe(c, TRUE, FALSE, None)
        /\ UNCHANGED <<fixed_vars, lhm_vars, example_value, freq_vars, cached, disk_vars, memo>>

\* ------------------------------------------------------------------------
\* The example classes
\* ------------------------------------------------------------------------
\* self.value = 75.845
ExampleValue == Rat(75845, 1000)

ExampleCustomNumericData_as_numeric(E) ==
    LET c == "ExampleCustomNumericData"
    IN  /\ c \in theme
        /\ calls < E.max_calls
        /\ example_value' = Some(ExampleValue)
        /\ last_val' = [last_val EXCEPT ![c] = Push(@, ExampleValue)]
        /\ Returns(c, ExampleValue)
        /\ Observe(c, FALSE, FALSE, Some(ExampleValue))
        /\ UNCHANGED <<fixed_vars, lhm_vars, value, freq_vars, cached, disk_vars, memo>>

\* the body is "pass": the call returns None
ExampleCustomTextOnlyData_as_numeric(E) ==
    LET c == "ExampleCustomTextOnlyData"
    IN  /\ c \in theme
        /\ calls < E.max_calls
        /\ ret' = [cls |-> c, op |-> "as_numeric", kind |-> "None", num |-> NaN, str |-> <<>>]
        /\ polled' = [cls |-> c, kind |-> "None", num |-> NaN]
        /\ Counted(c)
        /\ Observe(c, FALSE, FALSE, None)
        /\ UNCHANGED <<fixed_vars, lhm_vars, value, example_value, last_val, freq_vars,
                       cached, disk_vars, produced, memo>>

\* ------------------------------------------------------------------------
\* as_string()
\* ------------------------------------------------------------------------
Percentage_text(c) == FormatF(value[c], 0, 0) \o Chars_pct

Temperature_text(c) == FormatF(value[c], 0, 0) \o Chars_degC

Frequency_text(c) ==
    LET current_ghz == DivInt(value[c], 1000)
    IN  IF Gt(max_freq[c], 0)
        THEN FormatF(current_ghz, 0, 2) \o <<"/">> \o FormatF(DivInt(max_freq[c], 1000), 0, 2)
                 \o Chars_GHz
        ELSE FormatF(current_ghz, 4, 2) \o Chars_GHz

MemoryClockSpeed_text ==
    IF Gt(value["MemoryClockSpeed"], 0)
    THEN FormatF(value["MemoryClockSpeed"], 4, 0) \o Chars_MHz
    ELSE Chars_NA

DiskSpeed_text(c) ==
    IF Ge(value[c], 1000)
    THEN FormatF(DivInt(value[c], 1024), 5, 1) \o Chars_GBs
    ELSE FormatF(value[c], 5, 1) \o Chars_MBs

FanSpeed_text(c) == FormatF(value[c], 0, 0) \o Chars_RPM

\* "Python: " + platform.python_version()
TextOnly_text == <<"P", "y", "t", "h", "o", "n", ":", " ", "3">>

\* the string as_string() of class c returns; the example class reads
\* self.value, which exists only once as_numeric() has run
as_string_raises(c) == c = "ExampleCustomNumericData" /\ IsNone(example_value)

as_string(c) ==
    IF c \in PercentageClasses THEN Percentage_text(c)
    ELSE IF c \in TemperatureClasses \cup {"NvmeTemperature"} THEN Temperature_text(c)
    ELSE IF c \in FrequencyClasses THEN Frequency_text(c)
    ELSE IF c = "MemoryClockSpeed" THEN MemoryClockSpeed_text
    ELSE IF c \in DiskClasses THEN DiskSpeed_text(c)
    ELSE IF c \in FanClasses THEN FanSpeed_text(c)
    ELSE IF c = "ExampleCustomNumericData" THEN FormatF(Val(example_value), 5, 1) \o Chars_pct
    ELSE TextOnly_text

state_vars ==
    <<sys_platform, theme, lhm_initialized, lhm_handle, lhm_Hardware, value, example_value,
      last_val, max_freq, max_freq_loaded, cached, prev_bytes, prev_time, applied>>

\* c.as_string(): no state of any class changes
AsString(c) ==
    /\ c \in theme
    /\ ret' = IF as_string_raises(c)
              THEN [cls |-> c, op |-> "as_string", kind |-> "raised", num |-> NaN, str |-> <<>>]
              ELSE [cls |-> c, op |-> "as_string", kind |-> "str", num |-> NaN,
                    str |-> as_string(c)]
    /\ UNCHANGED <<state_vars, calls, obs, polled, produced, ncalls, memo>>

\* c.last_values(): the list itself, or None
LastValues(c) ==
    /\ c \in theme
    /\ ret' = [cls |-> c, op |-> "last_values",
               kind |-> IF c \in HistClasses THEN "list" ELSE "None",
               num |-> NaN, str |-> <<>>]
    /\ UNCHANGED <<state_vars, calls, obs, polled, produced, ncalls, memo>>

ExampleCustomNumericData_as_string == AsString("ExampleCustomNumericData")

ExampleCustomNumericData_last_values == LastValues("ExampleCustomNumericData")

ExampleCustomTextOnlyData_as_string == AsString("ExampleCustomTextOnlyData")

ExampleCustomTextOnlyData_last_values == LastValues("ExampleCustomTextOnlyData")

Cpu0Percentage_as_string == AsString("Cpu0Percentage")

Cpu0Percentage_last_values == LastValues("Cpu0Percentage")

Cpu1Percentage_as_string == AsString("Cpu1Percentage")

Cpu1Percentage_last_values == LastValues("Cpu1Percentage")

Cpu0Temperature_as_string == AsString("Cpu0Temperature")

Cpu0Temperature_last_values == LastValues("Cpu0Temperature")

Cpu1Temperature_as_string == AsString("Cpu1Temperature")

Cpu1Temperature_last_values == LastValues("Cpu1Temperature")

Cpu0Frequency_as_string == AsString("Cpu0Frequency")

Cpu0Frequency_last_values == LastValues("Cpu0Frequency")

Cpu1Frequency_as_string == AsString("Cpu1Frequency")

Cpu1Frequency_last_values == LastValues("Cpu1Frequency")

MemoryClockSpeed_as_string == AsString("MemoryClockSpeed")

MemoryClockSpeed_last_values == LastValues("MemoryClockSpeed")

DiskReadSpeed_as_string == AsString("DiskReadSpeed")

DiskReadSpeed_last_values == LastValues("DiskReadSpeed")

DiskWriteSpeed_as_string == AsString("DiskWriteSpeed")

DiskWriteSpeed_last_values == LastValues("DiskWriteSpeed")

Cpu0FanSpeed_as_string == AsString("Cpu0FanSpeed")

Cpu0FanSpeed_last_values == LastValues("Cpu0FanSpeed")

Cpu1FanSpeed_as_string == AsString("Cpu1FanSpeed")

Cpu1FanSpeed_last_values == LastValues("Cpu1FanSpeed")

NvmeTemperature_as_string == AsString("NvmeTemperature")

NvmeTemperature_last_values == LastValues("NvmeTemperature")

\* ------------------------------------------------------------------------
\* What the platform can answer (the inputs of the calls)
\* ------------------------------------------------------------------------
MaxCalls == 3

MaxPolls == 11

MaxCpus == 2

\* psutil.disk_io_counters(): cumulative bytes
ByteCounts == {0, 1000, 1049576, 2097152}

CounterReads ==
    {None} \cup {Some([read_bytes |-> r, write_bytes |-> w]) : r \in ByteCounts, w \in ByteCounts}

\* time.time(), in seconds
Times == {0, 1, 2}

\* the import of the LibreHardwareMonitor binding
Imports == {"ok", "ImportError", "Exception"}

Sensor(type, name, v) == [SensorType |-> type, Name |-> name, Value |-> v]

CpuA ==
    [HardwareType |-> "Cpu",
     Sensors |-> <<Sensor("Load", <<"CPU", "Core", "#", "1">>, Some(90)),
                   Sensor("Load", <<"CPU", "Total">>, Some(40)),
                   Sensor("Temperature", <<"CPU", "Package">>, Some(55)),
                   Sensor("Temperature", <<"Core", "Max">>, Some(60)),
                   Sensor("Clock", <<"CPU", "Core", "#", "1">>, Some(3000)),
                   Sensor("Clock", <<"CPU", "Core", "#", "1", "Effective">>, Some(100)),
                   Sensor("Clock", <<"CPU", "Core", "#", "2">>, Some(3501))>>]

CpuB ==
    [HardwareType |-> "Cpu",
     Sensors |-> <<Sensor("Load", <<"CPU", "Total">>, Some(5)),
                   Sensor("Temperature", <<"Core", "Average">>, None),
                   Sensor("Temperature", <<"Core", "#", "1">>, Some(48)),
                   Sensor("Clock", <<"Bus", "Speed">>, Some(100)),
                   Sensor("Clock", <<"CPU", "Core", "#", "1">>, Some(1200))>>]

\* a CPU whose sensors have no value yet
CpuBlank ==
    [HardwareType |-> "Cpu",
     Sensors |-> <<Sensor("Load", <<"CPU", "Total">>, None),
                   Sensor("Temperature", <<"CPU", "Package">>, None),
                   Sensor("Clock", <<"CPU", "Core", "#", "1">>, None)>>]

Memory(v) ==
    [HardwareType |-> "Memory", Sensors |-> <<Sensor("Load", <<"Memory">>, Some(30)),
                                              Sensor("Clock", <<"Memory", "Clock">>, v)>>]

Tree(hardware) == [raises |-> FALSE, Hardware |-> hardware]

Trees ==
    {[raises |-> TRUE, Hardware |-> <<>>],
     Tree(<<>>),
     Tree(<<CpuA>>),
     Tree(<<Memory(Some(3200)), CpuB, CpuA>>),
     Tree(<<CpuBlank, Memory(Some(0))>>),
     Tree(<<Memory(None), Memory(Some(2400)), CpuA, CpuB>>)}

\* topology reads
TopoReads ==
    {[kind |-> "ok", pkg |-> 0], [kind |-> "ok", pkg |-> 1],
     [kind |-> "FileNotFoundError", pkg |-> 0], [kind |-> "ValueError", pkg |-> 0],
     [kind |-> "OSError", pkg |-> 0]}

SeqsUpTo(S, n) == UNION {[1..k -> S] : k \in 0..n}

Loads == {10, 25}

UsageQueries ==
    {[raises |-> TRUE, per_cpu |-> <<>>, topo |-> <<>>]} \cup
    UNION {{[raises |-> FALSE, per_cpu |-> p, topo |-> t] : t \in [1..Len(p) -> TopoReads]} :
             p \in SeqsUpTo(Loads, MaxCpus)}

Freq(cur, mx) == [current |-> cur, max |-> mx]

Sysfs(cpuinfo, scaling) == [cpuinfo_max_freq |-> cpuinfo, scaling_max_freq |-> scaling]

Ok(p) == [kind |-> "ok", pkg |-> p]

FreqQuery(per_cpu, topo, sysfs) ==
    [raises |-> FALSE, per_cpu |-> per_cpu, topo |-> topo, sysfs |-> sysfs]

FreqQueries ==
    {[raises |-> TRUE, per_cpu |-> <<>>, topo |-> <<>>, sysfs |-> <<>>],
     FreqQuery(<<>>, <<>>, <<>>),
     FreqQuery(<<Freq(1200, 3600)>>, <<Ok(0)>>, <<Sysfs(None, None)>>),
     FreqQuery(<<Freq(1200, 3600), Freq(3001, 3800)>>, <<Ok(0), Ok(0)>>,
               <<Sysfs(None, None), Sysfs(None, None)>>),
     FreqQuery(<<Freq(1200, 3600), Freq(3001, 0)>>, <<Ok(0), Ok(1)>>,
               <<Sysfs(None, None), Sysfs(Some(3500000), Some(3400000))>>),
     FreqQuery(<<Freq(2000, 0), Freq(3001, 0)>>, <<Ok(1), Ok(0)>>,
               <<Sysfs(None, Some(3400000)), Sysfs(None, None)>>),
     FreqQuery(<<Freq(2000, 0), Freq(3001, 3800)>>,
               <<[kind |-> "FileNotFoundError", pkg |-> 0], [kind |-> "ValueError", pkg |-> 0]>>,
               <<Sysfs(Some(0), Some(3400000)), Sysfs(None, None)>>),
     FreqQuery(<<Freq(2000, 3600), Freq(3001, 3800)>>,
               <<Ok(0), [kind |-> "OSError", pkg |-> 0]>>,
               <<Sysfs(None, None), Sysfs(None, None)>>)}

Entry(label, current) == [label |-> label, current |-> current]

TempQuery(table) == [raises |-> FALSE, table |-> table]

Chip(name, entries) == [k \in {name} |-> entries]

TempQueries ==
    {[raises |-> TRUE, table |-> EmptyDict],
     TempQuery(EmptyDict),
     TempQuery(Chip("coretemp", <<Entry(<<"Core", "0">>, 45), Entry(<<"Package", "id", "0">>, 50)>>)),
     TempQuery(Chip("coretemp", <<Entry(<<"Package", "id", "0">>, 50),
                                  Entry(<<"Package", "id", "1">>, 61)>>)
               @@ Chip("nvme", <<Entry(<<"Sensor", "1">>, 38), Entry(<<"Composite">>, 40)>>)),
     TempQuery(Chip("coretemp", <<Entry(<<"Core", "0">>, 45), Entry(<<"Core", "1">>, 47)>>)
               @@ Chip("k10temp", <<Entry(<<"Tctl">>, 70), Entry(<<"Tdie">>, 71)>>)),
     TempQuery(Chip("coretemp", <<Entry(<<"Package", "id", "x">>, 50)>>)
               @@ Chip("nvme", <<Entry(<<"Sensor", "1">>, 38)>>)),
     TempQuery(Chip("k10temp", <<Entry(<<"Tctl">>, 55)>>)
               @@ Chip("zenpower", <<Entry(<<"Tdie">>, 52), Entry(<<"Tctl">>, 58)>>)),
     TempQuery(Chip("coretemp", <<Entry(<<"Package", "id", "x">>, 50)>>)
               @@ Chip("zenpower", <<Entry(<<"Tdie">>, 52), Entry(<<"Tctl">>, 58)>>)
               @@ Chip("nvme", <<Entry(<<"Composite">>, 33), Entry(<<"Composite">>, 40)>>))}

Fan(label, current) == [label |-> label, current |-> current]

FanQueries ==
    {[raises |-> TRUE, table |-> EmptyDict],
     [raises |-> FALSE, table |-> EmptyDict],
     [raises |-> FALSE, table |-> Chip("nct6779", <<Fan("fan1", 1200), Fan("fan2", 900)>>)],
     [raises |-> FALSE, table |-> Chip("nct6779", <<Fan("fan1", 1500)>>)],
     [raises |-> FALSE, table |-> Chip("it8728", <<Fan("fan1", 700), Fan("fan2", 800)>>)]}

Word(n) == Some([isdigit |-> TRUE, n |-> n])

Unknown == Some([isdigit |-> FALSE, n |-> 0])

Failed == [exc |-> TRUE, lines |-> <<>>]

Dmidecode(vals) ==
    [exc |-> FALSE,
     lines |-> [i \in 1..Len(vals) |->
                  [key |-> IF i % 2 = 1 THEN "Configured Memory Speed"
                           ELSE "Configured Clock Speed",
                   val |-> vals[i]]]]

DecodeDimms(ns) ==
    [exc |-> FALSE,
     lines |-> <<[key |-> "Fundamental Memory type", parts |-> <<[isdigit |-> FALSE, n |-> 0]>>],
                 [key |-> "Maximum module speed",
                  parts |-> [i \in 1..Len(ns) |-> [isdigit |-> TRUE, n |-> ns[i]]]]>>]

MemQuery(m1, m2, m3) == [dmidecode |-> m1, sudo_dmidecode |-> m2, decode_dimms |-> m3]

MemQueries ==
    {MemQuery(Failed, Failed, Failed),
     MemQuery(Dmidecode(<<Word(3200), Word(2933)>>), Failed, DecodeDimms(<<1600>>)),
     MemQuery(Dmidecode(<<Unknown, Word(0)>>), Dmidecode(<<Word(2400)>>), Failed),
     MemQuery(Dmidecode(<<Word(3200), None>>), Failed, DecodeDimms(<<64, 1600, 800>>)),
     MemQuery(Failed, Dmidecode(<<Unknown>>), DecodeDimms(<<64>>))}

\* everything the platform can answer, with the bound on the calls explored
Platform ==
    [max_calls |-> MaxCalls, counters |-> CounterReads, times |-> Times, imports |-> Imports,
     trees |-> Trees, usage |-> UsageQueries, freq |-> FreqQueries, temps |-> TempQueries,
     fans |-> FanQueries, mem |-> MemQueries]

\* ------------------------------------------------------------------------
\* Specification: the renderer polls the sensors of its theme
\* ------------------------------------------------------------------------
Calls(E) ==
    \/ ExampleCustomNumericData_as_numeric(E)
    \/ ExampleCustomTextOnlyData_as_numeric(E)
    \/ Cpu0Percentage_as_numeric(E)
    \/ Cpu1Percentage_as_numeric(E)
    \/ Cpu0Temperature_as_numeric(E)
    \/ Cpu1Temperature_as_numeric(E)
    \/ Cpu0Frequency_as_numeric(E)
    \/ Cpu1Frequency_as_numeric(E)
    \/ MemoryClockSpeed_as_numeric(E)
    \/ DiskReadSpeed_as_numeric(E)
    \/ DiskWriteSpeed_as_numeric(E)
    \/ Cpu0FanSpeed_as_numeric(E)
    \/ Cpu1FanSpeed_as_numeric(E)
    \/ NvmeTemperature_as_numeric(E)
    \/ ExampleCustomNumericData_as_string
    \/ ExampleCustomTextOnlyData_as_string
    \/ Cpu0Percentage_as_string
    \/ Cpu1Percentage_as_string
    \/ Cpu0Temperature_as_string
    \/ Cpu1Temperature_as_string
    \/ Cpu0Frequency_as_string
    \/ Cpu1Frequency_as_string
    \/ MemoryClockSpeed_as_string
    \/ DiskReadSpeed_as_string
    \/ DiskWriteSpeed_as_string
    \/ Cpu0FanSpeed_as_string
    \/ Cpu1FanSpeed_as_string
    \/ NvmeTemperature_as_string
    \/ ExampleCustomNumericData_last_values
    \/ ExampleCustomTextOnlyData_last_values
    \/ Cpu0Percentage_last_values
    \/ Cpu1Percentage_last_values
    \/ Cpu0Temperature_last_values
    \/ Cpu1Temperature_last_values
    \/ Cpu0Frequency_last_values
    \/ Cpu1Frequency_last_values
    \/ MemoryClockSpeed_last_values
    \/ DiskReadSpeed_last_values
    \/ DiskWriteSpeed_last_values
    \/ Cpu0FanSpeed_last_values
    \/ Cpu1FanSpeed_last_values
    \/ NvmeTemperature_last_values

Next == Calls(Platform)

Spec == Init /\ [][Next]_vars

\* ------------------------------------------------------------------------
\* Specification: one sensor polled for longer than its history, on a
\* platform that answers in one of two ways
\* ------------------------------------------------------------------------
SteadyPlatform ==
    [max_calls |-> MaxPolls,
     counters |-> {None, Some([read_bytes |-> 1049576, write_bytes |-> 2097152])},
     times |-> {0, 1},
     imports |-> {"ok"},
     trees |-> {Tree(<<>>), Tree(<<Memory(Some(3200)), CpuB, CpuA>>)},
     usage |-> {[raises |-> TRUE, per_cpu |-> <<>>, topo |-> <<>>],
                [raises |-> FALSE, per_cpu |-> <<10, 25>>, topo |-> <<Ok(0), Ok(1)>>]},
     freq |-> {FreqQuery(<<>>, <<>>, <<>>),
               FreqQuery(<<Freq(1200, 3600), Freq(3001, 0)>>, <<Ok(0), Ok(1)>>,
                         <<Sysfs(None, None), Sysfs(Some(3500000), Some(3400000))>>)},
     temps |-> {TempQuery(EmptyDict),
                TempQuery(Chip("coretemp", <<Entry(<<"Package", "id", "0">>, 50),
                                             Entry(<<"Package", "id", "1">>, 61)>>)
                          @@ Chip("nvme", <<Entry(<<"Composite">>, 40)>>))},
     fans |-> {[raises |-> FALSE, table |-> EmptyDict],
               [raises |-> FALSE,
                table |-> Chip("nct6779", <<Fan("fan1", 1200), Fan("fan2", 900)>>)]},
     mem |-> {MemQuery(Failed, Failed, Failed),
              MemQuery(Dmidecode(<<Word(3200)>>), Failed, Failed)}]

NextHistory == Calls(SteadyPlatform)

SpecHistory == Init /\ [][NextHistory]_vars

\* ------------------------------------------------------------------------
\* Specification: two sensors side by side in one theme, their calls
\* interleaved in any order
\* ------------------------------------------------------------------------
MaxPairCalls == 3

PairThemes ==
    {DiskClasses, PercentageClasses, TemperatureClasses, FrequencyClasses, FanClasses,
     {"MemoryClockSpeed", "Cpu0Frequency"}, {"NvmeTemperature", "Cpu0Temperature"},
     {"ExampleCustomNumericData", "ExampleCustomTextOnlyData"}}

PairPlatform ==
    [SteadyPlatform EXCEPT
        !.max_calls = MaxPairCalls,
        !.counters = {None, Some([read_bytes |-> 1049576, write_bytes |-> 2097152]),
                      Some([read_bytes |-> 2097152, write_bytes |-> 2097152])}]

NextPairs == Calls(PairPlatform)

InitPairs == InitState /\ theme \in PairThemes

SpecPairs == InitPairs /\ [][NextPairs]_vars

\* ------------------------------------------------------------------------
\* Specification: the helpers applied on their own, to inputs wider than a
\* poll of Spec meets
\* ------------------------------------------------------------------------
MaxSensors == 3

\* the sequences of at most n distinct elements of S
InjectiveSeqs(S, n) ==
    {q \in SeqsUpTo(S, n) : \A i, j \in 1..Len(q) : q[i] = q[j] => i = j}

\* the sensors a CPU node may carry, each value telling its sensor
NodeSensors ==
    {Sensor("Temperature", <<"Core", "Max", "#", "1">>, Some(60)),
     Sensor("Temperature", <<"Core", "Max", "#", "2">>, Some(63)),
     Sensor("Temperature", <<"CPU", "Package">>, Some(55)),
     Sensor("Temperature", <<"Core", "Average">>, Some(52)),
     Sensor("Temperature", <<"Core", "Average">>, None),
     Sensor("Temperature", <<"Core", "#", "1">>, Some(48)),
     Sensor("Temperature", <<"CCD1">>, Some(40)),
     Sensor("Load", <<"Core", "Max">>, Some(99))}

CpuNodes == {[HardwareType |-> "Cpu", Sensors |-> q] : q \in InjectiveSeqs(NodeSensors, MaxSensors)}

\* the record of one helper applied to one input
Applies(fn, arg, out) ==
    /\ applied' = [fn |-> fn, arg |-> arg, out |-> out]
    /\ UNCHANGED <<sys_platform, theme, lhm_vars, value, example_value, last_val, freq_vars,
                   cached, disk_vars, calls, ret, obs, polled, produced, ncalls, memo>>

\* the resolver of Cpu0Temperature / Cpu1Temperature on a CPU node; like the
\* other helpers it is applied once, to one input
Apply_temperature_reading ==
    /\ applied = NoHelper
    /\ \E cpu \in CpuNodes : Applies("temperature_reading", cpu, temperature_reading(cpu))

MaxTopo == 4

\* psutil.cpu_percent(percpu=True) of the first k logical CPUs
CpuLoads == <<10, 20, 60, 80, 35>>

\* the loads of k logical CPUs with every outcome of their topology reads
TopologyQueries ==
    {[raises |-> TRUE, per_cpu |-> <<>>, topo |-> <<>>]} \cup
    UNION {{[raises |-> FALSE, per_cpu |-> SubSeq(CpuLoads, 1, k), topo |-> t] :
              t \in [1..k -> TopoReads]} : k \in 0..MaxTopo}

\* psutil.cpu_freq(percpu=True) of the same CPUs: current and max MHz
FrequencyQuery(q) ==
    [raises |-> q.raises,
     per_cpu |-> [i \in 1..Len(q.per_cpu) |-> Freq(q.per_cpu[i] * 40, 3000 + q.per_cpu[i])],
     topo |-> q.topo,
     sysfs |-> [i \in 1..Len(q.per_cpu) |-> Sysfs(None, None)]]

Apply_linux_get_per_cpu_usage ==
    /\ applied = NoHelper
    /\ \E q \in TopologyQueries :
          Applies("linux_get_per_cpu_usage", q, linux_get_per_cpu_usage(q))

Apply_linux_get_per_cpu_frequencies ==
    /\ applied = NoHelper
    /\ \E q \in TopologyQueries :
          Applies("linux_get_per_cpu_frequencies", FrequencyQuery(q),
                  linux_get_per_cpu_frequencies(FrequencyQuery(q)))

Apply_linux_get_per_cpu_max_frequencies ==
    /\ applied = NoHelper
    /\ \E q \in TopologyQueries :
          Applies("linux_get_per_cpu_max_frequencies", FrequencyQuery(q),
                  linux_get_per_cpu_max_frequencies(FrequencyQuery(q)))

NextHelpers ==
    \/ Apply_temperature_reading
    \/ Apply_linux_get_per_cpu_usage
    \/ Apply_linux_get_per_cpu_frequencies
    \/ Apply_linux_get_per_cpu_max_frequencies

InitHelpers == InitState /\ theme = {}

SpecHelpers == InitHelpers /\ [][NextHelpers]_vars

\* ------------------------------------------------------------------------
\* Claims
\* ------------------------------------------------------------------------
NumericCall(C) == ret.op = "as_numeric" /\ ret.cls \in C

\* C1: as_numeric() of every sensor class returns a float (a number or NaN)
\* and never raises, whatever the platform answers.
C1_numeric_returns_float == NumericCall(ValueClasses) => ret.kind = "float"

\* C2: for every class with a history: last_values() is ten NaN before the
\* first as_numeric() call, and after more than ten as_numeric() calls it is
\* the values the last ten of them produced, oldest first.
C2_history_is_last_ten_produced ==
    \A c \in HistClasses :
       /\ ncalls[c] = 0 => last_val[c] = [i \in 1..HistLen |-> NaN]
       /\ (ncalls[c] > HistLen /\ Len(produced[c]) = HistLen) => last_val[c] = produced[c]

\* C3: whenever the reading is unavailable in a poll (binding missing, sensor
\* or chip not found, wrong platform, topology unreadable), as_numeric()
\* returns NaN: here for the calls that return, a call that raises being C1's.
C3_unavailable_returns_nan ==
    (NumericCall(ValueClasses) /\ obs.unavailable /\ ret.kind = "float") => IsNaN(ret.num)

\* the placeholders of as_string(): "N/A", or a text holding "nan"
IsPlaceholder(str) == str = Chars_NA \/ Contains(str, <<"n", "a", "n">>)

\* C4: when the most recent as_numeric() call of a class returned NaN, its
\* next as_string() call returns a placeholder and does not raise.
C4_text_after_nan_is_placeholder ==
    (/\ ret.op = "as_string"
     /\ polled.cls = ret.cls
     /\ polled.kind = "float"
     /\ IsNaN(polled.num))
    => (ret.kind = "str" /\ IsPlaceholder(ret.str))

HadPrevious == ~IsNone(obs.before.prev_bytes) /\ ~IsNone(obs.before.prev_time)

Elapsed == Val(obs.now) - Val(obs.before.prev_time)

\* C5: on each as_numeric() call of a disk class: with a previous sample and
\* elapsed > 0 the stored rate becomes (bytes - previous bytes) / elapsed /
\* (1024 * 1024); in every other case the stored rate is left as it was and
\* is the value returned.
C5_disk_rate_rule ==
    NumericCall(DiskClasses) =>
       IF HadPrevious /\ Elapsed > 0
       THEN /\ ~IsNone(obs.counter)
            /\ value[ret.cls] =
                  Rat(Val(obs.counter) - Val(obs.before.prev_bytes), Elapsed * MiB)
       ELSE /\ value[ret.cls] = obs.before.value
            /\ ret.kind = "float"
            /\ ret.num = obs.before.value

\* C6: after every as_numeric() call of a disk class the stored previous
\* sample is the byte counter and the time of that call.
C6_previous_sample_overwritten ==
    NumericCall(DiskClasses) =>
       /\ prev_time[ret.cls] = obs.now
       /\ ~IsNone(obs.counter)
       /\ prev_bytes[ret.cls] = obs.counter

\* C7: the first as_numeric() call of a disk class returns 0.0, not NaN, and
\* appends 0.0 to the history.
C7_first_disk_call_returns_zero ==
    (NumericCall(DiskClasses) /\ ncalls[ret.cls] = 1) =>
       /\ ret.kind = "float"
       /\ ret.num = Flt(0)
       /\ last_val[ret.cls][HistLen] = Flt(0)

\* the two samples of C8: 1000 bytes at t = 0 s, then 2097152 bytes at t = 1 s
C8_samples ==
    /\ NumericCall(DiskClasses)
    /\ obs.before.prev_bytes = Some(1000)
    /\ obs.before.prev_time = Some(0)
    /\ obs.counter = Some(2097152)
    /\ obs.now = Some(1)

\* C8 as stated: the second call returns exactly 1.0 MB/s.
C8_rate_is_one == C8_samples => (ret.kind = "float" /\ ret.num = Flt(1))

\* C8 amended: the second call returns 2096152 / 1048576 MB/s, that is
\* 262019 / 131072 = 1.99904632568359375, and stores it.
C8_rate_is_2096152_over_MiB ==
    C8_samples =>
       /\ ret.kind = "float"
       /\ ret.num = <<262019, 131072>>
       /\ value[ret.cls] = <<262019, 131072>>

C8_witness == C8_samples /\ ret.kind = "float"

\* C9: once an as_numeric() call of MemoryClockSpeed has read a positive
\* value v, every later call returns v and asks the platform nothing.
C9_memoized_clock_wins ==
    (NumericCall({"MemoryClockSpeed"}) /\ ~IsNone(obs.before.memo)) =>
       /\ ret.kind = "float"
       /\ ret.num = Val(obs.before.memo)
       /\ ~obs.queried
       /\ value["MemoryClockSpeed"] = Val(obs.before.memo)

C9_witness ==
    /\ NumericCall({"MemoryClockSpeed"})
    /\ obs.before.memo = Some(Flt(3200))
    /\ ret.num = Flt(3200)
    /\ ncalls["MemoryClockSpeed"] >= 2

\* a read of the memory clock that failed: nothing read, or 0 read
FailedClockRead ==
    /\ NumericCall({"MemoryClockSpeed"})
    /\ obs.queried
    /\ (IsNone(obs.reading) \/ obs.reading = Some(Flt(0)))

\* C10: a failed read of the memory clock (0, no sensor, an error) is not
\* memoized: the call returns NaN and the cache stays unpopulated; here for
\* the calls that return, a call that raises being C1's.
C10_failed_read_not_memoized ==
    (FailedClockRead /\ ret.kind = "float") => (IsNaN(ret.num) /\ ~cached)

\* C11: when an as_numeric() call of a frequency class on Linux has left
\* max_freq unpopulated (the read failed or had no entry for the package),
\* the failure is not recorded: _max_freq_loaded, the mark that makes every
\* later call skip the read, is not set, so the next call reads again.
C11_failed_max_freq_read_retried ==
    (NumericCall(FrequencyClasses) /\ is_linux /\ ~Gt(max_freq[ret.cls], 0))
    => ~max_freq_loaded[ret.cls]

\* the classes whose Windows branch reads the LibreHardwareMonitor binding
BindingClasses == CpuClasses \cup {"MemoryClockSpeed"}

\* an as_numeric() step of a class of BindingClasses on Windows
BindingCall == is_windows /\ calls' = calls + 1 /\ ret'.cls \in BindingClasses

\* C12: the binding is loaded at most once per process.  The first
\* as_numeric() call on the binding path closes the gate; from then on the
\* handle never changes (a handle obtained is reused, a missing one stays
\* missing), and with no handle every later binding-dependent as_numeric()
\* returns NaN.  Off Windows there is never a handle.
C12_binding_loaded_at_most_once ==
    /\ [](~is_windows => IsNone(lhm_handle))
    /\ []((is_windows /\ \E c \in BindingClasses : ncalls[c] > 0) => lhm_initialized)
    /\ [][/\ lhm_initialized =>
               /\ lhm_initialized'
               /\ lhm_handle' = lhm_handle
               /\ lhm_Hardware' = lhm_Hardware
          /\ (lhm_initialized /\ IsNone(lhm_handle) /\ BindingCall) =>
               (ret'.kind = "float" /\ IsNaN(ret'.num))]_vars

\* a second poll on Windows after a load that gave no handle
C12_witness ==
    /\ is_windows
    /\ lhm_initialized
    /\ IsNone(lhm_handle)
    /\ NumericCall(BindingClasses)
    /\ ncalls[ret.cls] >= 2
    /\ ret.kind = "float"
    /\ IsNaN(ret.num)

\* the live temperature sensors of a CPU node whose name starts with prefix
LiveMatches(cpu, prefix) ==
    {i \in 1..Len(cpu.Sensors) :
       /\ cpu.Sensors[i].SensorType = "Temperature"
       /\ ~IsNone(cpu.Sensors[i].Value)
       /\ StartsWith(cpu.Sensors[i].Name, prefix)}

\* the prefixes, by their place in the list, that some live sensor matches
MatchedPrefixes(cpu) ==
    {k \in 1..Len(TemperaturePrefixes) : LiveMatches(cpu, TemperaturePrefixes[k]) # {}}

\* C13: on a CPU node the temperature used is that of the first sensor, in
\* enumeration order, among the live temperature sensors matching the
\* earliest prefix of ["Core Average", "Core Max", "CPU Package", "Core"]
\* that any live sensor matches, whatever the enumeration order; there is no
\* reading when no prefix is matched.
C13_earliest_prefix_wins ==
    applied.fn = "temperature_reading" =>
       LET cpu == applied.arg
           ks == MatchedPrefixes(cpu)
       IN  IF ks = {} THEN applied.out = None
           ELSE LET hits == LiveMatches(cpu, TemperaturePrefixes[Min(ks)])
                IN  applied.out = Some(Flt(Val(cpu.Sensors[Min(hits)].Value)))

\* "CPU Package" enumerated before "Core Max #1": the latter is used
C13_witness ==
    /\ applied.fn = "temperature_reading"
    /\ applied.arg.Sensors =
          <<Sensor("Temperature", <<"CPU", "Package">>, Some(55)),
            Sensor("Temperature", <<"Core", "Max", "#", "1">>, Some(60))>>
    /\ applied.out = Some(Flt(60))

\* the per-CPU readings a grouping helper was applied to: loads, current MHz
\* or max MHz
Readings(a) ==
    [i \in 1..Len(a.arg.per_cpu) |->
        IF a.fn = "linux_get_per_cpu_usage" THEN a.arg.per_cpu[i]
        ELSE IF a.fn = "linux_get_per_cpu_frequencies" THEN a.arg.per_cpu[i].current
        ELSE a.arg.per_cpu[i].max]

RECURSIVE SumOver(_, _)
SumOver(r, S) ==
    IF S = {} THEN 0
    ELSE LET i == CHOOSE i \in S : TRUE IN r[i] + SumOver(r, S \ {i})

\* the per-CPU readings were read and every topology file gave a package id
AllReadable(q) ==
    ~q.raises /\ q.per_cpu # <<>> /\ \A i \in 1..Len(q.topo) : q.topo[i].kind = "ok"

\* C14: with every topology file readable, the packages reported are those
\* of the logical CPUs, every logical CPU is in the group of exactly one
\* reported package, its own, and the value of a package is the arithmetic
\* mean of the readings of exactly the CPUs of that package (loads, and
\* likewise current frequencies).
C14_package_mean_of_its_group ==
    (/\ applied.fn \in {"linux_get_per_cpu_usage", "linux_get_per_cpu_frequencies"}
     /\ AllReadable(applied.arg))
    => LET q == applied.arg
           r == Readings(applied)
           group(pkg) == {i \in 1..Len(r) : q.topo[i].pkg = pkg}
       IN  /\ DOMAIN applied.out = {q.topo[i].pkg : i \in 1..Len(r)}
           /\ \A i \in 1..Len(r) :
                 {pkg \in DOMAIN applied.out : i \in group(pkg)} = {q.topo[i].pkg}
           /\ \A pkg \in DOMAIN applied.out :
                 applied.out[pkg] = Rat(SumOver(r, group(pkg)), Cardinality(group(pkg)))

\* topology [0, 0, 1, 1] with loads [10, 20, 60, 80]: 15 and 70
C14_witness ==
    /\ applied.fn = "linux_get_per_cpu_usage"
    /\ applied.arg.per_cpu = <<10, 20, 60, 80>>
    /\ applied.arg.topo = <<Ok(0), Ok(0), Ok(1), Ok(1)>>
    /\ applied.out = (0 :> Flt(15)) @@ (1 :> Flt(70))

GroupingHelpers ==
    {"linux_get_per_cpu_usage", "linux_get_per_cpu_frequencies",
     "linux_get_per_cpu_max_frequencies"}

\* the package a logical CPU is to be counted in: the one its topology file
\* gives, package 0 when the file cannot be read
PackageOrZero(q, i) == IF q.topo[i].kind = "ok" THEN q.topo[i].pkg ELSE 0

\* C15: whenever the per-CPU readings were read, whatever the topology reads
\* did (missing, unparsable, inaccessible), the grouping produces a result
\* in which a CPU with an unreadable topology file counts in package 0: the
\* packages reported are those of PackageOrZero, so with no readable file
\* there is the single package 0, and a package's value aggregates (mean, or
\* max for the max frequency) the readings of exactly its CPUs.
C15_unreadable_topology_is_package_zero ==
    (/\ applied.fn \in GroupingHelpers
     /\ ~applied.arg.raises
     /\ applied.arg.per_cpu # <<>>)
    => LET q == applied.arg
           r == Readings(applied)
           group(pkg) == {i \in 1..Len(r) : PackageOrZero(q, i) = pkg}
       IN  /\ DOMAIN applied.out = {PackageOrZero(q, i) : i \in 1..Len(r)}
           /\ \A pkg \in DOMAIN applied.out :
                 applied.out[pkg] =
                    IF applied.fn = "linux_get_per_cpu_max_frequencies"
                    THEN Flt(CHOOSE m \in {r[i] : i \in group(pkg)} :
                                \A i \in group(pkg) : r[i] <= m)
                    ELSE Rat(SumOver(r, group(pkg)), Cardinality(group(pkg)))

\* C16: right after an as_string() call of a class, with no as_numeric()
\* call in between, a second as_string() call of that class returns the
\* identical string: the first call returned a string, and it is the string
\* the class gives in the state the call left.
C16_text_twice_same_string ==
    ret.op = "as_string" =>
       /\ ret.kind = "str"
       /\ ~as_string_raises(ret.cls)
       /\ as_string(ret.cls) = ret.str

\* an as_string() step
TextCall == ret'.op = "as_string" /\ calls' = calls

\* C17: as_string() of every class can be called in any state, also before
\* the first as_numeric() call, and never raises; it formats the stored
\* value, reads no sensor, and leaves the stored values, the histories, the
\* previous disk samples and the memoized values as they were.
C17_text_never_raises_changes_nothing ==
    /\ [](ret.op = "as_string" => ret.kind = "str")
    /\ [][TextCall =>
            /\ ret'.kind = "str"
            /\ ret'.str = as_string(ret'.cls)
            /\ UNCHANGED <<value, example_value, last_val, max_freq, max_freq_loaded, cached,
                           prev_bytes, prev_time, lhm_vars, memo, obs, polled, produced>>]_vars

\* the stored value of class c goes from a to a smaller b, both >= 0
ValueShrinks(c) ==
    /\ Ge(value[c], 0)
    /\ Ge(value'[c], 0)
    /\ NumLess(value'[c], value[c])

\* C18: the text of a class has a fixed minimum width: whenever its stored
\* value goes from a to a smaller b >= 0 (load 100 then 5), the string
\* as_string() returns for b is not shorter than the one it returned for a.
C18_text_does_not_shrink ==
    [][\A c \in ValueClasses :
          ValueShrinks(c) => Len(as_string(c))' >= Len(as_string(c))]_vars

\* a disk call that read a counter lower than the previous sample, after a
\* positive elapsed time
CounterWentBack ==
    /\ NumericCall(DiskClasses)
    /\ HadPrevious
    /\ ~IsNone(obs.counter)
    /\ Elapsed > 0
    /\ Val(obs.counter) < Val(obs.before.prev_bytes)

\* C19: when a previous sample exists, elapsed > 0 and the byte counter is
\* lower than the previous one, as_numeric() stores and returns the negative
\* rate (bytes - previous bytes) / elapsed / MiB, unclamped, and appends it
\* to the history.
C19_negative_rate_not_clamped ==
    CounterWentBack =>
       /\ ret.kind = "float"
       /\ ret.num = Rat(Val(obs.counter) - Val(obs.before.prev_bytes), Elapsed * MiB)
       /\ NumLess(ret.num, Flt(0))
       /\ value[ret.cls] = ret.num
       /\ last_val[ret.cls][HistLen] = ret.num

\* 2097152 bytes, then 1000 bytes one second later
C19_witness ==
    /\ CounterWentBack
    /\ obs.before.prev_bytes = Some(2097152)
    /\ obs.counter = Some(1000)
    /\ Elapsed = 1
    /\ ret.num = <<-262019, 131072>>

\* an as_numeric() call of MemoryClockSpeed on Linux that ran the chain
ChainRun == NumericCall({"MemoryClockSpeed"}) /\ applied.fn = "linux_get_memory_clock"

\* the speed each program gives when run, in the order dmidecode,
\* sudo -n dmidecode, decode-dimms; 0 when it fails, times out or reports none
Yields(q) ==
    <<dmidecode_speed(q.dmidecode).speed,
      dmidecode_speed(q.sudo_dmidecode).speed,
      decode_dimms_speed(q.decode_dimms).speed>>

\* C20: on Linux the programs are tried in the order dmidecode, sudo -n
\* dmidecode, decode-dimms.  The result is the speed of the first program
\* that yields a positive one, and no program after it is run; a program
\* that fails or times out is skipped; when none yields a positive speed the
\* result is 0, all three were run, and as_numeric() returns NaN.
C20_first_positive_mechanism_wins ==
    ChainRun =>
       LET y == Yields(applied.arg)
           pos == {k \in 1..3 : y[k] > 0}
       IN  /\ ret.kind = "float"
           /\ IF pos = {}
              THEN /\ applied.out = [speed |-> 0, ran |-> 3]
                   /\ IsNaN(ret.num)
              ELSE /\ applied.out = [speed |-> y[Min(pos)], ran |-> Min(pos)]
                   /\ ret.num = Flt(y[Min(pos)])

\* dmidecode fails on a malformed line, sudo -n dmidecode fails, decode-dimms
\* gives 1600
C20_witness ==
    /\ ChainRun
    /\ Yields(applied.arg) = <<0, 0, 1600>>
    /\ applied.out.ran = 3
    /\ ret.num = Flt(1600)

\* ------------------------------------------------------------------------
\* C21: the Linux temperature chip chain
\* ------------------------------------------------------------------------
\* the coretemp entries labelled with a package and ending in a number
PackageEntries(es) ==
    {i \in 1..Len(es) :
        /\ \E k \in 1..Len(es[i].label) : LowerTok(es[i].label[k]) = "package"
        /\ ~IsNone(ParseInt(es[i].label[Len(es[i].label)]))}

PackageIdOf(e) == Val(ParseInt(e.label[Len(e.label)]))

\* what the coretemp table yields: its package entries by package id (the
\* later entry of one id wins), else its first "Core" entry as package 0
CoretempYield(t) ==
    IF "coretemp" \notin DOMAIN t THEN EmptyDict
    ELSE LET es == t["coretemp"]
             P == PackageEntries(es)
             C == {i \in 1..Len(es) : StartsWith(es[i].label, <<"Core">>)}
         IN  IF P # {}
             THEN [id \in {PackageIdOf(es[i]) : i \in P} |->
                     LET last == CHOOSE i \in P :
                                    /\ PackageIdOf(es[i]) = id
                                    /\ \A j \in P : PackageIdOf(es[j]) = id => j <= i
                     IN  Flt(es[last].current)]
             ELSE IF C # {} THEN [id \in {0} |-> Flt(es[Min(C)].current)]
             ELSE EmptyDict

\* what the first AMD table present yields: its entries by position
FirstAmdYield(t) ==
    LET by_position(es) == [i \in 0..(Len(es) - 1) |-> Flt(es[i + 1].current)]
    IN  IF "k10temp" \in DOMAIN t THEN by_position(t["k10temp"])
        ELSE IF "zenpower" \in DOMAIN t THEN by_position(t["zenpower"])
        ELSE EmptyDict

ChainYield(q) ==
    IF q.raises THEN EmptyDict
    ELSE IF CoretempYield(q.table) # EmptyDict THEN CoretempYield(q.table)
    ELSE FirstAmdYield(q.table)

TemperatureIndex == IF ret.cls = "Cpu0Temperature" THEN 0 ELSE 1

LinuxTemperatureCall ==
    /\ NumericCall(TemperatureClasses)
    /\ applied.fn = "linux_get_cpu_temperatures"

\* C21: on Linux the per-package temperatures are what coretemp yields when
\* it yields any (package entries by package id, else the first "Core" entry
\* as package 0); otherwise what the first present of k10temp, zenpower
\* yields; and as_numeric() returns the requested package's temperature, or
\* NaN when the chain has no entry for it.
C21_temperature_chip_chain ==
    LinuxTemperatureCall =>
        /\ applied.out = ChainYield(applied.arg)
        /\ ret.kind = "float"
        /\ IF TemperatureIndex \in DOMAIN applied.out
           THEN ret.num = applied.out[TemperatureIndex]
           ELSE IsNaN(ret.num)

\* a call answered by k10temp although zenpower is present too
C21_witness ==
    /\ LinuxTemperatureCall
    /\ ~applied.arg.raises
    /\ {"k10temp", "zenpower"} \subseteq DOMAIN applied.arg.table
    /\ CoretempYield(applied.arg.table) = EmptyDict
    /\ ret.cls = "Cpu0Temperature"
    /\ ret.num = Flt(55)

\* ------------------------------------------------------------------------
\* C22: state isolation between the sensors
\* ------------------------------------------------------------------------
\* the stored state of one class: its attributes value, last_val,
\* _prev_bytes, _prev_time, max_freq, _max_freq_loaded and _cached
MetricState(d) ==
    [value |-> IF d \in ValueClasses THEN value[d]
               ELSE IF d = "ExampleCustomNumericData" /\ ~IsNone(example_value)
                    THEN Val(example_value) ELSE NaN,
     has_value |-> d \in ValueClasses \/ (d = "ExampleCustomNumericData" /\ ~IsNone(example_value)),
     last_val |-> IF d \in HistClasses THEN last_val[d] ELSE <<>>,
     prev_bytes |-> IF d \in DiskClasses THEN prev_bytes[d] ELSE None,
     prev_time |-> IF d \in DiskClasses THEN prev_time[d] ELSE None,
     max_freq |-> IF d \in FrequencyClasses THEN max_freq[d] ELSE NaN,
     max_freq_loaded |-> d \in FrequencyClasses /\ max_freq_loaded[d],
     cached |-> d = "MemoryClockSpeed" /\ cached]

\* C22: an as_numeric() call of one class leaves the last value, the
\* history, the previous sample and the memoized values of every other class
\* unchanged, whether it returns a reading, returns NaN or raises.
C22_numeric_call_leaves_other_metrics ==
    [][calls' = calls + 1 =>
          \A d \in Classes \ {ret'.cls} : MetricState(d)' = MetricState(d)]_vars

\* DiskReadSpeed polled last, at time 1, with a rate and a sample of its
\* own, while DiskWriteSpeed still holds the sample it took at time 0
C22_witness ==
    /\ NumericCall({"DiskReadSpeed"})
    /\ ret.kind = "float"
    /\ prev_time["DiskReadSpeed"] = Some(1)
    /\ prev_bytes["DiskReadSpeed"] = Some(2097152)
    /\ value["DiskReadSpeed"] = Rat(2097152 - 1049576, MiB)
    /\ prev_time["DiskWriteSpeed"] = Some(0)
    /\ prev_bytes["DiskWriteSpeed"] = Some(2097152)
    /\ value["DiskWriteSpeed"] = Flt(0)
    /\ last_val["DiskWriteSpeed"][HistLen] = Flt(0)
    /\ last_val["DiskReadSpeed"][HistLen] = value["DiskReadSpeed"]

\* ------------------------------------------------------------------------
\* C23: the length of the histories
\* ------------------------------------------------------------------------
\* the step is an as_numeric() call of class c that returns a reading
ReadingStep(c) ==
    /\ calls' = calls + 1
    /\ ret'.cls = c
    /\ ret'.kind = "float"
    /\ ~IsNaN(ret'.num)

\* C23: every history has exactly ten slots in every reachable state; a call
\* that appends drops the oldest slot in the same call, and a call without a
\* reading (NaN returned, or raised), as_string() and last_values() leave
\* every history as it was.
C23_history_always_ten_slots ==
    /\ [](\A c \in HistClasses : Len(last_val[c]) = HistLen)
    /\ [][\A c \in HistClasses :
             IF ReadingStep(c)
             THEN last_val'[c] = Tail(last_val[c]) \o <<ret'.num>>
             ELSE last_val'[c] = last_val[c]]_vars

\* a CPU sensor that returned a reading and then NaN: ten slots, the
\* reading in the newest one, the other nine still NaN
C23_witness ==
    \E c \in CpuClasses :
        /\ NumericCall({c})
        /\ Len(produced[c]) = 2
        /\ ~IsNaN(produced[c][1])
        /\ IsNaN(produced[c][2])
        /\ Len(last_val[c]) = HistLen
        /\ last_val[c][HistLen] = produced[c][1]
        /\ \A i \in 1..(HistLen - 1) : IsNaN(last_val[c][i])

\* ------------------------------------------------------------------------
\* C24: a CPU sensor that returns NaN keeps what it had
\* ------------------------------------------------------------------------
\* the step is an as_numeric() call of a CPU class that returns NaN
NaNStep ==
    /\ calls' = calls + 1
    /\ ret'.cls \in CpuClasses
    /\ ret'.kind = "float"
    /\ IsNaN(ret'.num)

\* the last reading class c returned, 0 before the first one
LastRead(c) ==
    LET read == {i \in 1..Len(produced[c]) : ~IsNaN(produced[c][i])}
    IN  IF read = {} THEN Flt(0)
        ELSE produced[c][CHOOSE i \in read : \A j \in read : j <= i]

\* the text of class c for the value v
ShownAs(c, v) ==
    IF c \in PercentageClasses THEN FormatF(v, 0, 0) \o Chars_pct
    ELSE IF c \in TemperatureClasses THEN FormatF(v, 0, 0) \o Chars_degC
    ELSE IF Gt(max_freq[c], 0)
         THEN FormatF(DivInt(v, 1000), 0, 2) \o <<"/">>
                  \o FormatF(DivInt(max_freq[c], 1000), 0, 2) \o Chars_GHz
         ELSE FormatF(DivInt(v, 1000), 4, 2) \o Chars_GHz

\* as_string() of a CPU class whose last as_numeric() returned NaN
TextAfterNaN ==
    /\ ret.op = "as_string"
    /\ ret.cls \in CpuClasses
    /\ polled.cls = ret.cls
    /\ polled.kind = "float"
    /\ IsNaN(polled.num)

\* C24: an as_numeric() call of a load, temperature or frequency class that
\* returns NaN leaves that class's value and history as they were, and an
\* as_string() after it shows the last reading the class returned, or 0 if
\* it never returned one.
C24_nan_keeps_value_and_history ==
    /\ [][NaNStep => /\ value'[ret'.cls] = value[ret'.cls]
                     /\ last_val'[ret'.cls] = last_val[ret'.cls]]_vars
    /\ [](TextAfterNaN => /\ ret.kind = "str"
                          /\ ret.str = ShownAs(ret.cls, LastRead(ret.cls)))

\* the text after a reading followed by NaN: it shows the reading
C24_witness ==
    /\ TextAfterNaN
    /\ Len(produced[ret.cls]) = 2
    /\ ~IsNaN(produced[ret.cls][1])
    /\ produced[ret.cls][1] # Flt(0)
    /\ value[ret.cls] = produced[ret.cls][1]
    /\ last_val[ret.cls][HistLen] = produced[ret.cls][1]
    /\ IsNaN(last_val[ret.cls][HistLen - 1])

\* ------------------------------------------------------------------------
\* C25: the value returned, the value stored and the newest history slot
\* ------------------------------------------------------------------------
\* the value as_string() formats: C.value, or self.value of the example
StoredValue(c) ==
    IF c = "ExampleCustomNumericData" THEN Val(example_value) ELSE value[c]

\* class c has returned a reading in one of its as_numeric() calls
HasRead(c) == \E i \in 1..Len(produced[c]) : ~IsNaN(produced[c][i])

\* C25: right after an as_numeric() call of a class with a history that
\* returns a number, the number returned, the value as_string() formats and
\* the newest history slot are equal; and once a class has returned a number,
\* its newest history slot equals its stored value in every later state.
C25_returned_stored_newest_agree ==
    /\ NumericCall(HistClasses) /\ ret.kind = "float" /\ ~IsNaN(ret.num) =>
          /\ StoredValue(ret.cls) = ret.num
          /\ last_val[ret.cls][HistLen] = ret.num
    /\ \A c \in HistClasses :
          HasRead(c) => last_val[c][HistLen] = StoredValue(c)

\* a second reading that differs from the first: it is returned, stored and
\* in the newest slot, the first reading one slot behind it
C25_witness ==
    /\ NumericCall(HistClasses)
    /\ ret.kind = "float"
    /\ ~IsNaN(ret.num)
    /\ StoredValue(ret.cls) = ret.num
    /\ last_val[ret.cls][HistLen] = ret.num
    /\ ~IsNaN(last_val[ret.cls][HistLen - 1])
    /\ last_val[ret.cls][HistLen - 1] # ret.num
====
